---- MODULE Spec2Model ----
(***************************************************************************)
(* Model of the document-ingestion handler of sc-landingai:                *)
(*   src/ade_s3_handler.py        ade_handler, ensure_s3_folders           *)
(*   src/visual_grounding_helper.py  extract_chunk_image (image key)       *)
(*                                                                         *)
(* Python strings are modelled as sequences of one-character strings, so   *)
(* that startswith/endswith/replace/pathlib parsing are computed character *)
(* by character as the code computes them.                                 *)
(***************************************************************************)
EXTENDS Integers, Sequences, FiniteSets, Bags, TLC

(***************************************************************************)
(* Bounds of the model.                                                    *)
(***************************************************************************)
\* longest batch of event records handed to one invocation
MaxBatch == 2
\* most store/parser calls that fail in one behaviour
MaxFaults == 1
\* deepest nesting of subfolders below the input folder in the key domain
MaxDepth == 2

(***************************************************************************)
(* String literals (sequences of characters).                              *)
(***************************************************************************)
EmptyStr == << >>
Slash == <<"/">>
Dot == <<".">>
Underscore == <<"_">>
S_md == <<".", "m", "d">>
S_json == <<".", "j", "s", "o", "n">>
S_grounding == <<"_", "g", "r", "o", "u", "n", "d", "i", "n", "g">>
S_grounding_json == S_grounding \o S_json
S_chunks_slash == <<"_", "c", "h", "u", "n", "k", "s", "/">>
S_output_chunks == <<"o", "u", "t", "p", "u", "t", "/", "c", "h", "u", "n", "k", "s", "/">>
S_input == <<"i", "n", "p", "u", "t", "/">>
S_output == <<"o", "u", "t", "p", "u", "t", "/">>
S_results_out == <<"r", "e", "s", "u", "l", "t", "s", "/", "o", "u", "t", "/">>
S_medical == <<"m", "e", "d", "i", "c", "a", "l">>
S_invoices == <<"i", "n", "v", "o", "i", "c", "e", "s">>
S_2024 == <<"2", "0", "2", "4">>
S_sub == <<"s", "u", "b">>
S_v1_md == <<"v", "1", ".", "m", "d">>
S_report == <<"r", "e", "p", "o", "r", "t">>
S_readme == <<"r", "e", "a", "d", "m", "e">>
S_notes_md == <<"n", "o", "t", "e", "s", ".", "m", "d">>
S_acme == <<"a", "c", "m", "e">>
S_doc == <<"d", "o", "c">>
S_x == <<"x">>
S_pdf == <<".", "p", "d", "f">>
S_txt == <<".", "t", "x", "t">>
S_other == <<"o", "t", "h", "e", "r", "/">>
S_c1 == <<"c", "1">>
S_c2 == <<"c", "2">>
S_text == <<"t", "e", "x", "t">>
S_png == <<".", "p", "n", "g">>

(***************************************************************************)
(* Python str operations.                                                  *)
(***************************************************************************)
\* s[n:]
DropPrefix(s, n) == SubSeq(s, n + 1, Len(s))

\* s[:n]
TakePrefix(s, n) == SubSeq(s, 1, n)

\* s.startswith(p)
StartsWith(s, p) == Len(p) <= Len(s) /\ SubSeq(s, 1, Len(p)) = p

\* s.endswith(p)
EndsWith(s, p) == Len(p) <= Len(s) /\ SubSeq(s, Len(s) - Len(p) + 1, Len(s)) = p

\* s.replace(old, new): every non-overlapping occurrence, left to right
RECURSIVE Replace(_, _, _)
Replace(s, old, new) ==
    IF s = EmptyStr THEN EmptyStr
    ELSE IF StartsWith(s, old) THEN new \o Replace(DropPrefix(s, Len(old)), old, new)
    ELSE <<Head(s)>> \o Replace(Tail(s), old, new)

\* s.split("/"): the list of fields between separators (empty fields kept)
RECURSIVE SplitSlash(_)
SplitSlash(s) ==
    IF \A i \in 1..Len(s) : s[i] # "/" THEN <<s>>
    ELSE LET k == CHOOSE i \in 1..Len(s) : s[i] = "/" /\ \A j \in 1..(i - 1) : s[j] # "/"
         IN  <<TakePrefix(s, k - 1)>> \o SplitSlash(DropPrefix(s, k))

\* "/".join(parts)
RECURSIVE JoinSlash(_)
JoinSlash(parts) ==
    IF parts = << >> THEN EmptyStr
    ELSE IF Len(parts) = 1 THEN parts[1]
    ELSE parts[1] \o Slash \o JoinSlash(Tail(parts))

\* s.rfind("."): 1-based index of the last dot, 0 when there is none
LastDot(s) ==
    IF \A i \in 1..Len(s) : s[i] # "." THEN 0
    ELSE CHOOSE i \in 1..Len(s) : s[i] = "." /\ \A j \in (i + 1)..Len(s) : s[j] # "."

\* os.path.basename(key): what follows the last "/"
Basename(key) == LET f == SplitSlash(key) IN f[Len(f)]

(***************************************************************************)
(* pathlib.PurePosixPath: a path is [root, parts]; parsing drops empty     *)
(* fields and "." fields.                                                  *)
(***************************************************************************)
SelectParts(fields) == SelectSeq(fields, LAMBDA x : x # EmptyStr /\ x # Dot)

\* the root of a path string: "/" , "//" (exactly two leading slashes) or none
RootOf(s) ==
    IF ~StartsWith(s, Slash) THEN EmptyStr
    ELSE IF StartsWith(s, Slash \o Slash) /\ ~StartsWith(s, Slash \o Slash \o Slash)
         THEN Slash \o Slash
    ELSE Slash

\* Path(s)
PathOf(s) == [root |-> RootOf(s), parts |-> SelectParts(SplitSlash(s))]

\* str(p)
PathStr(p) ==
    IF p.root = EmptyStr /\ p.parts = << >> THEN Dot
    ELSE p.root \o JoinSlash(p.parts)

\* p.parts
PathParts(p) == IF p.root = EmptyStr THEN p.parts ELSE <<p.root>> \o p.parts

\* p.parent
PathParent(p) ==
    IF p.parts = << >> THEN p
    ELSE [root |-> p.root, parts |-> SubSeq(p.parts, 1, Len(p.parts) - 1)]

\* p.name
PathName(p) == IF p.parts = << >> THEN EmptyStr ELSE p.parts[Len(p.parts)]

\* p.stem: the name without its last suffix; a leading or a trailing dot is no suffix
PathStem(p) ==
    LET name == PathName(p)
        i == LastDot(name)
    IN  IF 1 < i /\ i < Len(name) THEN TakePrefix(name, i - 1) ELSE name

\* posixpath.join(a, b), as used by Path(a, b) and Path(a) / b
PosixJoin(a, b) ==
    IF StartsWith(b, Slash) THEN b
    ELSE IF a = EmptyStr \/ EndsWith(a, Slash) THEN a \o b
    ELSE a \o Slash \o b

\* Path(*segments)
RECURSIVE JoinAll(_)
JoinAll(segments) ==
    IF segments = << >> THEN EmptyStr
    ELSE IF Len(segments) = 1 THEN segments[1]
    ELSE PosixJoin(JoinAll(SubSeq(segments, 1, Len(segments) - 1)), segments[Len(segments)])

PathFromParts(segments) == PathOf(JoinAll(segments))

(***************************************************************************)
(* urllib.parse.unquote_plus on the event's object key: "+" becomes a      *)
(* space, then "%XX" escapes are decoded (the escapes of PercentTable).    *)
(***************************************************************************)
PercentTable ==
    [esc \in {<<"2", "0">>, <<"2", "B">>, <<"2", "F">>, <<"2", "5">>} |->
        IF esc = <<"2", "0">> THEN " "
        ELSE IF esc = <<"2", "B">> THEN "+"
        ELSE IF esc = <<"2", "F">> THEN "/"
        ELSE "%"]

RECURSIVE Unquote(_)
Unquote(s) ==
    IF s = EmptyStr THEN EmptyStr
    ELSE IF s[1] = "%" /\ Len(s) >= 3 /\ SubSeq(s, 2, 3) \in DOMAIN PercentTable
         THEN <<PercentTable[SubSeq(s, 2, 3)]>> \o Unquote(DropPrefix(s, 3))
    ELSE <<Head(s)>> \o Unquote(Tail(s))

UnquotePlus(s) == Unquote(Replace(s, <<"+">>, <<" ">>))

\* the object key as S3 writes it into an event record: URL-encoded, a space
\* as "+"
RECURSIVE QuotePlus(_)
QuotePlus(s) ==
    IF s = EmptyStr THEN EmptyStr
    ELSE (IF s[1] = " " THEN <<"+">>
          ELSE IF s[1] = "+" THEN <<"%", "2", "B">>
          ELSE IF s[1] = "%" THEN <<"%", "2", "5">>
          ELSE <<s[1]>>) \o QuotePlus(Tail(s))

(***************************************************************************)
(* Configuration read from the environment when the module is loaded.      *)
(***************************************************************************)
\* INPUT_FOLDER: the default "input/"
INPUT_FOLDER == S_input

\* the values OUTPUT_FOLDER is configured with: the default, a prefix of
\* several segments, and the empty prefix
OutputFolders == {S_output, S_results_out, EmptyStr}

VARIABLES
    OUTPUT_FOLDER,    \* os.environ OUTPUT_FOLDER, fixed for the process lifetime
    FORCE_REPROCESS,  \* os.environ FORCE_REPROCESS == "true"
    store,            \* the bucket: a function from object key to object body
    inv,              \* the running ade_handler invocations: locals and position
    calls,            \* per invocation and record taken, the decoded key and
                      \* the external calls made for it so far (history)
    uploaded,         \* the identities of the documents uploaded (history)
    parsed,           \* the response the parsing service gives for a document
    faultsLeft,       \* how many more external calls may fail in this behaviour
    imports,          \* the imaging modules visual_grounding_helper could import
    req,              \* the chunk the image helpers are called for: keys, box, padding
    lastCall,         \* the last call of an image helper: what it did and returned (history)
    trigger,          \* the bucket's notification configuration: LambdaFunctionConfigurations
    events            \* the bag of object keys S3 has notified and Lambda has not yet run for

vars == <<OUTPUT_FOLDER, FORCE_REPROCESS, store, inv, calls, uploaded, parsed, faultsLeft,
          imports, req, lastCall, trigger, events>>

(***************************************************************************)
(* Key derivation of ade_handler (lines 63-83).                            *)
(***************************************************************************)
\* key.endswith("/")
IsFolderKey(key) == EndsWith(key, Slash)

\* a prefix check that lets every key through
AcceptsEveryKey(key) == TRUE

\* key.startswith(INPUT_FOLDER)
UnderInputFolder(key) == StartsWith(key, INPUT_FOLDER)

\* relative_path = key[len(INPUT_FOLDER):] if key.startswith(INPUT_FOLDER) else key
RelativePath(key) ==
    IF StartsWith(key, INPUT_FOLDER) THEN DropPrefix(key, Len(INPUT_FOLDER)) ELSE key

\* subfolder = str(path_parts.parent) if path_parts.parent != Path('.') else ''
Subfolder(relative_path) ==
    LET parent == PathParent(PathOf(relative_path))
    IN  IF parent # PathOf(Dot) THEN PathStr(parent) ELSE EmptyStr

\* filename = path_parts.name
Filename(relative_path) == PathName(PathOf(relative_path))

\* the file name with ".md" appended to the whole name ("document.pdf.md")
FilenameKeepingExt(filename) == filename

\* filename_without_ext = Path(filename).stem
FilenameWithoutExt(filename) == PathStem(PathOf(filename))

\* output_key, built from the configured output folder
OutputKey(outputFolder, subfolder, filename_without_ext) ==
    IF subfolder # EmptyStr /\ subfolder # Dot
    THEN outputFolder \o subfolder \o Slash \o filename_without_ext \o S_md
    ELSE outputFolder \o filename_without_ext \o S_md

\* the markdown key of an input key
MarkdownKeyOf(outputFolder, key) ==
    LET rel == RelativePath(key)
    IN  OutputKey(outputFolder, Subfolder(rel), FilenameWithoutExt(Filename(rel)))

(***************************************************************************)
(* Grounding and chunk locations of ade_handler (lines 127-144), derived   *)
(* from the markdown key.                                                  *)
(***************************************************************************)
\* path_parts = Path(output_key).parts
OutputParts(output_key) == PathParts(PathOf(output_key))

\* the whole folder of the markdown key, all segments but the file name
BaseFolderAllSegments(output_key) ==
    LET parts == OutputParts(output_key)
    IN  PathStr(PathFromParts(SubSeq(parts, 1, Len(parts) - 1)))

\* base_folder = str(Path(*path_parts[:2]))
BaseFolder(output_key) ==
    LET parts == OutputParts(output_key)
    IN  PathStr(PathFromParts(SubSeq(parts, 1, 2)))

\* relative_path = Path(*path_parts[2:]) if len(path_parts) > 2 else Path(path_parts[-1])
GroundingRelativePath(output_key) ==
    LET parts == OutputParts(output_key)
    IN  IF Len(parts) > 2 THEN PathFromParts(SubSeq(parts, 3, Len(parts)))
        ELSE PathOf(parts[Len(parts)])

\* [grounding_folder, grounding_key, chunks_folder]; grounding_folder is not
\* assigned on the fallback branch (the empty string here)
GroundingLayout(output_key) ==
    IF Len(OutputParts(output_key)) >= 2
    THEN LET base_folder == BaseFolder(output_key)
             grounding_folder == base_folder \o S_grounding
             grounding_filename ==
                 Replace(PathStr(GroundingRelativePath(output_key)), S_md, S_grounding_json)
         IN  [base_folder |-> base_folder,
              grounding_folder |-> grounding_folder,
              chunks_folder |-> base_folder \o S_chunks_slash,
              grounding_key |-> PathStr(PathOf(PosixJoin(grounding_folder, grounding_filename)))]
    ELSE [base_folder |-> EmptyStr,
          grounding_folder |-> EmptyStr,
          chunks_folder |-> S_output_chunks,
          grounding_key |-> Replace(output_key, S_md, S_grounding_json)]

\* chunk_key = f"{chunks_folder}{filename_without_ext}_{chunk_id}.json"
ChunkKey(chunks_folder, filename_without_ext, chunk_id) ==
    chunks_folder \o filename_without_ext \o Underscore \o chunk_id \o S_json

(***************************************************************************)
(* extract_chunk_image: the key of the chunk image (line 91).              *)
(***************************************************************************)
S_chunk_images_folder ==
    S_output \o S_medical \o <<"_", "c", "h", "u", "n", "k", "_", "i", "m", "a", "g", "e", "s">>

ChunkImagesFolder == S_chunk_images_folder

\* image_key = f"output/medical_chunk_images/{source_document}_{chunk_id}.png"
ImageKey(source_document, chunk_id) ==
    ChunkImagesFolder \o Slash \o source_document \o Underscore \o chunk_id \o S_png

(***************************************************************************)
(* The object store (boto3 S3 client) and the parsing service.             *)
(***************************************************************************)
\* an object body: content type, the document it was made from, its data
Body(ctype, of, data) == [ctype |-> ctype, of |-> of, data |-> data]

SourceBody(key) == Body("source", key, << >>)

EmptyBody == Body("empty", EmptyStr, << >>)

\* a put that keeps an existing object and writes beside it instead
StorePutNoOverwrite(s, key, body) ==
    LET target == IF key \in DOMAIN s THEN key \o <<"~">> ELSE key
    IN  [x \in DOMAIN s \cup {target} |-> IF x = target THEN body ELSE s[x]]

\* s3.put_object(Bucket, Key, Body): creates or overwrites the object at Key
StorePut(s, key, body) ==
    [x \in DOMAIN s \cup {key} |-> IF x = key THEN body ELSE s[x]]

\* the existence check that never finds the output
HeadNeverFound(s, key) == FALSE

\* s3.head_object(Bucket, Key) returns (does not raise) when the object exists
HeadFound(s, key) == key \in DOMAIN s

\* An object of the parser response (or a dict made from one) is a record
\* whose field `has` lists the attributes (keys) it carries; a field outside
\* `has` is absent.
\* hasattr(obj, name), and `name in dict`
HasAttr(obj, name) == name \in obj.has

\* getattr(obj, name, default), and dict.get(name, default)
GetAttr(obj, name, default) == IF name \in obj.has THEN obj[name] ELSE default

\* {}
EmptyDict == [has |-> {}]

\* the object without the attributes `names`
Lacking(obj, names) == [obj EXCEPT !.has = @ \ names]

\* client.parse(document, model): a deterministic function of the document
ParseResponse(file_bytes, answer) == [answer EXCEPT !.markdown = file_bytes.of]

\* the box dict of lines 163-168
BoxDict(box) ==
    [has |-> {"left", "top", "right", "bottom"},
     left |-> GetAttr(box, "left", 0), top |-> GetAttr(box, "top", 0),
     right |-> GetAttr(box, "right", 0), bottom |-> GetAttr(box, "bottom", 0)]

\* hasattr(chunk, 'grounding') and hasattr(grounding, 'page') and
\* hasattr(grounding, 'box') (lines 157-159)
HasGrounding(chunk) ==
    /\ HasAttr(chunk, "grounding")
    /\ HasAttr(chunk.grounding, "page")
    /\ HasAttr(chunk.grounding, "box")

\* chunk_dict built from a chunk of the response (lines 151-171): an object
\* is read attribute by attribute, anything else is taken as it is
ChunkDict(chunk) ==
    IF HasAttr(chunk, "__dict__")
    THEN [has |-> {"id", "type", "markdown"}
                    \cup (IF HasGrounding(chunk) THEN {"grounding"} ELSE {}),
          id |-> GetAttr(chunk, "id", EmptyStr),
          type |-> GetAttr(chunk, "type", EmptyStr),
          markdown |-> GetAttr(chunk, "markdown", EmptyStr),
          grounding |-> IF HasGrounding(chunk)
                        THEN [has |-> {"page", "box"},
                              page |-> chunk.grounding.page,
                              box |-> BoxDict(chunk.grounding.box)]
                        ELSE EmptyDict]
    ELSE chunk

\* chunks_data (lines 147-172)
ChunksData(response) ==
    IF HasAttr(response, "chunks")
    THEN [k \in 1..Len(response.chunks) |-> ChunkDict(response.chunks[k])]
    ELSE << >>

\* split_dict (lines 177-185)
SplitDict(split) ==
    IF HasAttr(split, "__dict__")
    THEN [has |-> {"chunks", "pages", "markdown", "class_"},
          chunks |-> GetAttr(split, "chunks", << >>),
          pages |-> GetAttr(split, "pages", << >>),
          markdown |-> GetAttr(split, "markdown", EmptyStr),
          class_ |-> GetAttr(split, "class_", EmptyStr)]
    ELSE split

\* splits_data (lines 174-186)
SplitsData(response) ==
    IF HasAttr(response, "splits")
    THEN [k \in 1..Len(response.splits) |-> SplitDict(response.splits[k])]
    ELSE << >>

\* metadata_data (lines 188-202)
MetadataData(response) ==
    IF HasAttr(response, "metadata")
    THEN IF HasAttr(response.metadata, "__dict__")
         THEN [has |-> {"filename", "page_count", "version", "job_id", "org_id",
                        "credit_usage", "duration_ms"},
               filename |-> GetAttr(response.metadata, "filename", EmptyStr),
               page_count |-> GetAttr(response.metadata, "page_count", 0),
               version |-> GetAttr(response.metadata, "version", EmptyStr),
               job_id |-> GetAttr(response.metadata, "job_id", EmptyStr),
               org_id |-> GetAttr(response.metadata, "org_id", EmptyStr),
               credit_usage |-> GetAttr(response.metadata, "credit_usage", 0),
               duration_ms |-> GetAttr(response.metadata, "duration_ms", 0)]
         ELSE response.metadata
    ELSE EmptyDict

\* grounding_data (lines 204-208)
GroundingData(response) ==
    [chunks |-> ChunksData(response),
     splits |-> SplitsData(response),
     metadata |-> MetadataData(response)]

\* box coordinates are fractions of the page: numerators over BoxDen
BoxDen == 4

\* chunk_json (lines 228-250)
ChunkJson(chunk, filename_without_ext) ==
    LET grounding == GetAttr(chunk, "grounding", EmptyDict)
        box == GetAttr(grounding, "box", EmptyDict)
    IN  [chunk_id |-> GetAttr(chunk, "id", EmptyStr),
         chunk_type |-> GetAttr(chunk, "type", S_text),
         text |-> GetAttr(chunk, "markdown", EmptyStr),
         bbox |-> <<GetAttr(box, "left", 0), GetAttr(box, "top", 0),
                    GetAttr(box, "right", BoxDen), GetAttr(box, "bottom", BoxDen)>>,
         page |-> GetAttr(grounding, "page", 0),
         source_document |-> filename_without_ext]

\* a guard that lets the grounding data be saved whatever it holds
AlwaysSaves(chunks_data) == TRUE

\* if grounding_data['chunks']: (line 211)
HasChunks(chunks_data) == chunks_data # << >>

\* a chunk loop that writes an object for every chunk, with or without id
NextChunkAny(chunks_data, from) == from

\* the index of the first chunk at or after `from` with a non-empty id
\* (lines 227-230: chunks without id are passed over), Len + 1 when none
NextChunk(chunks_data, from) ==
    IF \E k \in from..Len(chunks_data) : GetAttr(chunks_data[k], "id", EmptyStr) # EmptyStr
    THEN CHOOSE k \in from..Len(chunks_data) :
             /\ GetAttr(chunks_data[k], "id", EmptyStr) # EmptyStr
             /\ \A m \in from..(k - 1) : GetAttr(chunks_data[m], "id", EmptyStr) = EmptyStr
    ELSE Len(chunks_data) + 1

(***************************************************************************)
(* visual_grounding_helper: rendering, cropping and annotating.  A call is *)
(* summed up in a record: what it returned ("url", "image" or "none"),     *)
(* whether an exception left it, the external calls it made, the key it    *)
(* wrote, and the rectangles it computed.                                  *)
(***************************************************************************)
\* the rendered page in pixels (pix.width, pix.height) and the page in points
ImageWidth == 209
ImageHeight == 100
PageWidth == 100
PageHeight == 48

Max(a, b) == IF a >= b THEN a ELSE b
Min(a, b) == IF a <= b THEN a ELSE b

\* int(p / q) for q > 0: truncation towards zero
Trunc(p, q) == IF p >= 0 THEN p \div q ELSE 0 - ((0 - p) \div q)

\* int(x) of a float x computed by a multiplication and a division whose exact
\* value is p / q: the truncation, or, when p / q is a whole number other
\* than 0, also the whole number next to it towards zero (the float product
\* can fall just short of the whole number)
IntOfFloat(p, q) ==
    {Trunc(p, q)}
    \cup (IF p # 0 /\ p % q = 0
          THEN {IF p > 0 THEN Trunc(p, q) - 1 ELSE Trunc(p, q) + 1}
          ELSE {})

\* <<int(pdf_0 * scale), int(pdf_1 * scale)>> for the normalized coordinates
\* n0 / BoxDen and n1 / BoxDen of one axis (lines 125-138): pdf = norm * page,
\* scale = img / page; equal coordinates give equal pixels
PixelChoices(n0, n1, page, img) ==
    {a \in IntOfFloat(n0 * page * img, BoxDen * page) \X IntOfFloat(n1 * page * img, BoxDen * page) :
        n0 = n1 => a[1] = a[2]}

\* the crop rectangle without max(0, ...) and min(img, ...)
CropRectUnclamped(padding, ax, ay) ==
    <<ax[1] - padding, ay[1] - padding, ax[2] + padding, ay[2] + padding>>

\* lines 135-138: (crop_x0, crop_y0, crop_x1, crop_y1)
CropRect(padding, ax, ay) ==
    <<Max(0, ax[1] - padding), Max(0, ay[1] - padding),
      Min(ImageWidth, ax[2] + padding), Min(ImageHeight, ay[2] + padding)>>

\* lines 146-147: the rectangle drawn on the cropped image, whose size is
\* that of the crop rectangle
HighlightRect(padding, rect) ==
    <<padding, padding, (rect[3] - rect[1]) - padding - 1, (rect[4] - rect[2]) - padding - 1>>

\* a rectangle Pillow may refuse (ValueError) depending on its version: a
\* crop box that is empty or inverted, a drawn rectangle that is inverted
Inverted(rect) == rect # << >> /\ (rect[3] < rect[1] \/ rect[4] < rect[2])
EmptyRect(rect) == rect # << >> /\ (rect[3] <= rect[1] \/ rect[4] <= rect[2])

\* a check that takes only a missing box for the full page
FullPageOnlyIfNone(bbox) == bbox = << >>

\* if not bbox or len(bbox) != 4 (line 115); no box (None, []) is << >>
FullPage(bbox) == bbox = << >> \/ Len(bbox) # 4

\* lines 13-18: both imports succeeded
CroppingEnabled(imp) == {"fitz", "PIL"} \subseteq imp

\* one external call of a helper and how it ended
Step(op, failAt) == [op |-> op, outcome |-> IF failAt = op THEN "Error" ELSE "ok"]

Returned(ret, log, wrote, mode, rect, mark) ==
    [ret |-> ret, raised |-> FALSE, log |-> log, wrote |-> wrote, mode |-> mode,
     rect |-> rect, mark |-> mark]

Raising(log, mode, rect, mark) ==
    [ret |-> "none", raised |-> TRUE, log |-> log, wrote |-> << >>, mode |-> mode,
     rect |-> rect, mark |-> mark]

\* a function body without its except clause: the exception leaves the function
Reraise(res) == res

\* except Exception: ... return None (lines 52-54, 175-177, 308-310, 374-376)
ExceptReturnsNone(res) == [res EXCEPT !.raised = FALSE]

\* render_pdf_page (lines 40-54)
RenderPdfPageResult(imp, failAt) ==
    IF ~CroppingEnabled(imp)
    THEN Returned("none", << >>, << >>, "unsupported", << >>, << >>)
    ELSE ExceptReturnsNone(
             IF failAt = "render"
             THEN Raising(<<Step("render", failAt)>>, "none", << >>, << >>)
             ELSE Returned("image", <<Step("render", failAt)>>, << >>, "page", << >>, << >>))

\* extract_chunk_image (lines 85-177); ax, ay are the pixel positions of the
\* box, pilRaises says whether Pillow refuses the rectangles
ExtractChunkImageResult(s, imp, r, highlight, failAt, ax, ay, pilRaises) ==
    IF ~CroppingEnabled(imp)
    THEN Returned("none", << >>, << >>, "unsupported", << >>, << >>)
    ELSE ExceptReturnsNone(
        LET image_key == ImageKey(r.source_document, r.chunk_id)
            head == <<Step("head", failAt)>>
            get == head \o <<Step("get", failAt)>>
            rendered == RenderPdfPageResult(imp, failAt)
            render == get \o rendered.log
            put == render \o <<Step("put", failAt)>>
            rect == CropRect(r.padding, ax, ay)
            mark == IF highlight THEN HighlightRect(r.padding, rect) ELSE << >>
        IN  IF failAt # "head" /\ HeadFound(s, image_key)
            THEN Returned("url", head, << >>, "existing", << >>, << >>)
            ELSE IF failAt = "get" \/ r.source_pdf_key \notin DOMAIN s
            THEN Raising(get, "none", << >>, << >>)
            ELSE IF rendered.raised
            THEN Raising(render, "none", << >>, << >>)
            ELSE IF rendered.ret = "none"
            THEN Returned("none", render, << >>, "none", << >>, << >>)
            ELSE IF FullPage(r.bbox)
            THEN IF failAt = "put"
                 THEN Raising(put, "page", << >>, << >>)
                 ELSE Returned("url", put, <<image_key>>, "page", << >>, << >>)
            ELSE IF pilRaises
            THEN Raising(render, "crop", rect, mark)
            ELSE IF failAt = "put"
            THEN Raising(put, "crop", rect, mark)
            ELSE Returned("url", put, <<image_key>>, "crop", rect, mark))

\* bbox as the dict grounding_info['box'] (lines 361, 365)
BoxAsDict(bbox) ==
    IF Len(bbox) # 4 THEN [has |-> {}, left |-> 0, top |-> 0, right |-> 0, bottom |-> 0]
    ELSE [has |-> {"left", "top", "right", "bottom"},
          left |-> bbox[1], top |-> bbox[2], right |-> bbox[3], bottom |-> bbox[4]]

\* max(0, min(1, x)) (lines 253-256)
Clamp01(x) == Max(0, Min(BoxDen, x))

\* lines 244-262: the rectangle drawn for a box dict, << >> when none is drawn
AnnotationRect(bbox) ==
    IF bbox.has # {} /\ HasAttr(bbox, "left")
    THEN <<Trunc(Clamp01(GetAttr(bbox, "left", 0)) * ImageWidth, BoxDen),
           Trunc(Clamp01(GetAttr(bbox, "top", 0)) * ImageHeight, BoxDen),
           Trunc(Clamp01(GetAttr(bbox, "right", BoxDen)) * ImageWidth, BoxDen),
           Trunc(Clamp01(GetAttr(bbox, "bottom", BoxDen)) * ImageHeight, BoxDen)>>
    ELSE << >>

\* create_annotated_image_from_pdf (lines 206-310) for one bounding box:
\* fitz and Image are names that exist only when their import succeeded
CreateAnnotatedImageResult(imp, bbox, output_s3_key, failAt, pilRaises) ==
    ExceptReturnsNone(
        LET render == <<Step("render", failAt)>>
            put == render \o <<Step("put", failAt)>>
            rect == AnnotationRect(bbox)
        IN  IF "fitz" \notin imp
            THEN Raising(<< >>, "none", << >>, << >>)
            ELSE IF failAt = "render" \/ "PIL" \notin imp
            THEN Raising(render, "none", << >>, << >>)
            ELSE IF pilRaises
            THEN Raising(render, "annotated", rect, << >>)
            ELSE IF failAt = "put"
            THEN Raising(put, "annotated", rect, << >>)
            ELSE Returned("url", put, <<output_s3_key>>, "annotated", rect, << >>))

S_annotations == <<"a", "n", "n", "o", "t", "a", "t", "i", "o", "n", "s", "/">>
S_a_id == <<"<", "a", " ", "i", "d", "=">>
S_a_end == <<">", "<", "/", "a", ">">>
Quote == <<"\"">>

\* str.strip(chars) for one character
RECURSIVE Strip(_, _)
Strip(str, ch) ==
    IF str # << >> /\ <<Head(str)>> = ch THEN Strip(Tail(str), ch)
    ELSE IF str # << >> /\ <<str[Len(str)]>> = ch THEN Strip(SubSeq(str, 1, Len(str) - 1), ch)
    ELSE str

\* str(page_num) for the pages of the model
PageStr(page_num) == <<<<"0">>, <<"1">>, <<"2">>>>[page_num + 1]

\* line 338
CleanChunkId(chunk_id) == Strip(Replace(Replace(chunk_id, S_a_id, EmptyStr), S_a_end, EmptyStr), Quote)

\* line 339
AnnotationKey(source_pdf_key, page_num, chunk_id) ==
    S_annotations \o PathStem(PathOf(source_pdf_key)) \o <<"_", "p">> \o PageStr(page_num)
        \o Underscore \o CleanChunkId(chunk_id) \o S_png

\* get_or_create_annotated_image (lines 337-376)
GetOrCreateAnnotatedImageResult(s, imp, r, force_recreate, failAt, pilRaises) ==
    LET annotation_key == AnnotationKey(r.source_pdf_key, r.page_num, r.chunk_id)
        head == IF force_recreate THEN << >> ELSE <<Step("head", failAt)>>
        get == head \o <<Step("get", failAt)>>
        created == CreateAnnotatedImageResult(imp, BoxAsDict(r.bbox), annotation_key,
                                              failAt, pilRaises)
    IN  IF ~force_recreate /\ failAt # "head" /\ HeadFound(s, annotation_key)
        THEN Returned("url", head, << >>, "existing", << >>, << >>)
        ELSE ExceptReturnsNone(
                 IF failAt = "get" \/ r.source_pdf_key \notin DOMAIN s
                 THEN Raising(get, "none", << >>, << >>)
                 ELSE [created EXCEPT !.log = get \o @])

(***************************************************************************)
(* Inputs: documents, event keys, parser answers.                          *)
(***************************************************************************)
FolderNames == {S_medical, S_invoices, S_2024, S_sub, S_v1_md}
Stems == {S_report, S_readme, S_notes_md, S_acme, S_doc, S_x}
Exts == {S_pdf, S_txt}

\* the subfolder paths of at most MaxDepth segments
Subfolders == UNION {[1..k -> FolderNames] : k \in 0..MaxDepth}

\* a document identity: (subfolder segments, stem, source extension)
Docs == [sub : Subfolders, stem : Stems, ext : Exts]

\* the storage key of a document under the input folder
KeyOfDoc(d) == INPUT_FOLDER \o JoinSlash(d.sub \o <<d.stem \o d.ext>>)

Doc(sub, stem, ext) == [sub |-> sub, stem |-> stem, ext |-> ext]

K_report == KeyOfDoc(Doc(<<S_medical>>, S_report, S_pdf))
K_readme == KeyOfDoc(Doc(<< >>, S_readme, S_txt))
K_acme == KeyOfDoc(Doc(<<S_invoices, S_2024>>, S_acme, S_pdf))
K_folder == INPUT_FOLDER \o S_medical \o Slash
K_outside == S_other \o S_x \o S_pdf
\* "input/medical/a+b.pdf" as the event carries it: the object "a b.pdf"
K_plus == INPUT_FOLDER \o S_medical \o Slash \o <<"a", "+", "b">> \o S_pdf

\* the object keys event records carry in the batches of Init
EventKeys == {K_report, K_folder, K_outside, K_plus}

Batches(keys) == UNION {[1..k -> keys] : k \in 1..MaxBatch}

\* an object with every attribute of its class
Box(left, top, right, bottom) ==
    [has |-> {"__dict__", "left", "top", "right", "bottom"},
     left |-> left, top |-> top, right |-> right, bottom |-> bottom]

ChunkGrounding(page, box) == [has |-> {"__dict__", "page", "box"}, page |-> page, box |-> box]

\* a chunk of the response: on page 0, in the box (1/4, 1/4, 3/4, 1/2)
Chunk(id) ==
    [has |-> {"__dict__", "id", "type", "markdown", "grounding"},
     id |-> id, type |-> S_text, markdown |-> id,
     grounding |-> ChunkGrounding(0, Box(1, 1, BoxDen - 1, 2))]

Split ==
    [has |-> {"__dict__", "chunks", "pages", "markdown", "class_"},
     chunks |-> <<S_c1>>, pages |-> <<0>>, markdown |-> S_c1, class_ |-> S_doc]

Metadata ==
    [has |-> {"__dict__", "filename", "page_count", "version", "job_id", "org_id",
              "credit_usage", "duration_ms"},
     filename |-> S_doc, page_count |-> 1, version |-> S_x, job_id |-> S_x,
     org_id |-> S_x, credit_usage |-> 1, duration_ms |-> 1]

\* a response with every field and the given chunks
Answer(chunks) ==
    [has |-> {"__dict__", "markdown", "chunks", "splits", "metadata"},
     markdown |-> EmptyStr, chunks |-> chunks, splits |-> <<Split>>, metadata |-> Metadata]

\* what the parser answers with: no chunk, one, several with one id empty
ParserAnswers ==
    {Answer(<< >>), Answer(<<Chunk(S_c1)>>),
     Answer(<<Chunk(S_c1), Chunk(EmptyStr), Chunk(S_c2)>>)}

\* chunks that lack attributes: the id; type and markdown; the grounding; the
\* page or the box of the grounding; sides of the box; and a chunk given as a
\* dict without type and grounding
ChunkVariants ==
    LET c == Chunk(S_c1) IN
    {c,
     Lacking(c, {"id"}),
     Lacking(c, {"type", "markdown"}),
     Lacking(c, {"grounding"}),
     [c EXCEPT !.grounding = Lacking(@, {"page"})],
     [c EXCEPT !.grounding = Lacking(@, {"box"})],
     [c EXCEPT !.grounding.box = Lacking(@, {"right", "bottom"})],
     Lacking(c, {"__dict__", "type", "grounding"})}

\* responses with one chunk, complete or not, with a split or a metadata
\* object that lacks attributes, with several chunks, or with no chunk
IncompleteAnswers ==
    {Answer(<<c>>) : c \in ChunkVariants}
    \cup {[Answer(<<Chunk(S_c1)>>) EXCEPT !.splits = <<Lacking(Split, {"pages", "class_"})>>],
          [Answer(<<Chunk(S_c1)>>) EXCEPT !.metadata = Lacking(Metadata, {"filename", "page_count"})],
          Answer(<<Chunk(S_c1), Chunk(EmptyStr), Chunk(S_c2)>>),
          Answer(<< >>)}

\* every response above, without any subset of markdown, chunks, splits, metadata
TolerantAnswers ==
    {Lacking(a, fields) : a \in IncompleteAnswers,
                          fields \in SUBSET {"markdown", "chunks", "splits", "metadata"}}

\* the padding extract_chunk_image is called with: none, its default, and
\* one larger than the rendered page
DefaultPadding == 10
HugePadding == 300
Paddings == {0, DefaultPadding, HugePadding}

\* numerators of box coordinates: below 0, 0, inside, 1, above 1
Nums == {0 - 1, 0, 1, BoxDen - 1, BoxDen, BoxDen + 1}

\* the box of Chunk
InnerBox == <<1, 1, BoxDen - 1, 2>>

\* boxes (left, top, right, bottom): every extent along one axis with the
\* whole page along the other, and the inner box
Boxes ==
    {<<p[1], 0, p[2], BoxDen>> : p \in Nums \X Nums}
    \cup {<<0, p[1], BoxDen, p[2]>> : p \in Nums \X Nums}
    \cup {InnerBox}

\* no box, and boxes of 3 and of 5 components
MalformedBoxes == {<< >>, <<1, 1, 2>>, <<0, 0, BoxDen, BoxDen, 0>>}

\* a call for chunk c1 on page 0 of input/medical/report.pdf
Request(bbox, padding, highlight) ==
    [source_pdf_key |-> K_report, source_document |-> S_report, chunk_id |-> S_c1,
     page_num |-> 0, bbox |-> bbox, padding |-> padding, highlight |-> highlight]

\* calls with the highlight of the default
Requests ==
    {Request(bbox, padding, TRUE) : bbox \in Boxes \cup MalformedBoxes, padding \in Paddings}

\* calls with and without highlight, with no box and with the inner box
FewRequests ==
    {Request(bbox, DefaultPadding, highlight) : bbox \in {<< >>, InnerBox}, highlight \in BOOLEAN}

K_report_image == ImageKey(S_report, S_c1)
K_report_annotation == AnnotationKey(K_report, 0, S_c1)

\* no image helper has been called
NoCall ==
    [fn |-> "none", existed |-> FALSE, highlight |-> FALSE, force_recreate |-> FALSE,
     ret |-> "none", raised |-> FALSE, log |-> << >>, wrote |-> << >>, mode |-> "none",
     rect |-> << >>, mark |-> << >>, pixels |-> << >>]

\* the bucket has no notification configuration: nothing is notified
NoNotifications ==
    /\ trigger = << >>
    /\ events = EmptyBag

\* the image helpers are loaded with both imports and are not called
NoImageCalls ==
    /\ imports = {"fitz", "PIL"}
    /\ req = Request(<< >>, DefaultPadding, TRUE)
    /\ lastCall = NoCall

\* the bucket holding the uploaded source documents of `keys`
UploadedStore(keys) ==
    LET objs == {UnquotePlus(k) : k \in {x \in keys : ~IsFolderKey(x)}}
    IN  [x \in objs |-> SourceBody(x)]

\* the locals of an invocation before its first statement
NewInvocation(records) ==
    [records |-> records, i |-> 1, pc |-> "loop", f |-> 1,
     key |-> EmptyStr, doc_id |-> EmptyStr, subfolder |-> EmptyStr,
     filename |-> EmptyStr, filename_without_ext |-> EmptyStr,
     output_key |-> EmptyStr, file_bytes |-> EmptyBody,
     response |-> ParseResponse(EmptyBody, Answer(<< >>)),
     base_folder |-> EmptyStr, grounding_folder |-> EmptyStr,
     grounding_key |-> EmptyStr, chunks_folder |-> EmptyStr,
     chunks_data |-> << >>, j |-> 1, results |-> << >>]

(***************************************************************************)
(* Initial states.                                                         *)
(***************************************************************************)
\* one invocation on a batch of event records; store and parser calls may fail
Init ==
    /\ OUTPUT_FOLDER = S_output
    /\ FORCE_REPROCESS \in BOOLEAN
    /\ store = UploadedStore(EventKeys)
    /\ uploaded = {Doc(<<S_medical>>, S_report, S_pdf), Doc(<<S_medical>>, <<"a", " ", "b">>, S_pdf)}
    /\ \E b \in Batches(EventKeys) : inv = [n \in {1} |-> NewInvocation(b)]
    /\ calls = [n \in {1} |-> << >>]
    /\ parsed \in ParserAnswers
    /\ faultsLeft = MaxFaults
    /\ NoImageCalls
    /\ NoNotifications

\* one invocation on one document of the key domain, for every configured
\* output folder; no call fails
InitKeys ==
    /\ OUTPUT_FOLDER \in OutputFolders
    /\ FORCE_REPROCESS = FALSE
    /\ \E d \in Docs :
         /\ store = UploadedStore({KeyOfDoc(d)})
         /\ uploaded = {d}
         /\ inv = [n \in {1} |-> NewInvocation(<<KeyOfDoc(d)>>)]
    /\ calls = [n \in {1} |-> << >>]
    /\ parsed = Answer(<<Chunk(S_c1)>>)
    /\ faultsLeft = 0
    /\ NoImageCalls
    /\ NoNotifications

\* two concurrent invocations triggered for the same input key; no call fails
InitConc ==
    /\ OUTPUT_FOLDER = S_output
    /\ FORCE_REPROCESS \in BOOLEAN
    /\ \E d \in {Doc(<<S_medical>>, S_report, S_pdf), Doc(<< >>, S_readme, S_txt),
                  Doc(<<S_invoices, S_2024>>, S_acme, S_pdf)} :
         /\ store = UploadedStore({KeyOfDoc(d)})
         /\ uploaded = {d}
         /\ inv = [n \in {1, 2} |-> NewInvocation(<<KeyOfDoc(d)>>)]
    /\ calls = [n \in {1, 2} |-> << >>]
    /\ parsed \in {a \in ParserAnswers : a.chunks # << >>}
    /\ faultsLeft = 0
    /\ NoImageCalls
    /\ NoNotifications

\* one invocation on one document; the parser answers with a response that
\* may lack fields; no call fails
InitParse ==
    /\ OUTPUT_FOLDER = S_output
    /\ FORCE_REPROCESS \in BOOLEAN
    /\ \E d \in {Doc(<<S_medical>>, S_report, S_pdf), Doc(<<S_invoices, S_2024>>, S_acme, S_pdf)} :
         /\ store = UploadedStore({KeyOfDoc(d)})
         /\ uploaded = {d}
         /\ inv = [n \in {1} |-> NewInvocation(<<KeyOfDoc(d)>>)]
    /\ calls = [n \in {1} |-> << >>]
    /\ parsed \in TolerantAnswers
    /\ faultsLeft = 0
    /\ NoImageCalls
    /\ NoNotifications

\* the image helpers alone.  Either both imports succeeded, no image is in
\* the bucket and the call is any of Requests; or any of the imports may
\* have failed, the chunk image and the annotation may exist from an earlier
\* deployment, and the call is one of FewRequests.
InitImage ==
    /\ OUTPUT_FOLDER = S_output
    /\ FORCE_REPROCESS = FALSE
    /\ \E existing \in SUBSET {K_report_image, K_report_annotation} :
         /\ store = [k \in {K_report} \cup existing |->
                       IF k = K_report THEN SourceBody(k) ELSE Body("image/png", K_report, << >>)]
         /\ imports \in SUBSET {"fitz", "PIL"}
         /\ req \in (IF existing = {} /\ CroppingEnabled(imports)
                     THEN Requests \cup FewRequests ELSE FewRequests)
    /\ uploaded = {Doc(<<S_medical>>, S_report, S_pdf)}
    /\ inv = << >>
    /\ calls = << >>
    /\ parsed = Answer(<<Chunk(S_c1)>>)
    /\ faultsLeft = 0
    /\ lastCall = NoCall
    /\ NoNotifications

(***************************************************************************)
(* ade_handler, one action per external call.  pc is the position of the   *)
(* invocation: "loop" (line 44), "ensure" (61), "head" (88), "get" (103),  *)
(* "parse" (111), "put_md" (118), "put_grounding" (216), "put_chunk"       *)
(* (254), "returned" (286), "raised" (an exception left the handler).      *)
(***************************************************************************)
Invocations == DOMAIN inv

\* lambda_helpers.setup_s3_trigger: the filter rules of the notification
\* configuration, a prefix rule and, when a suffix is given, a suffix rule
FilterRules(prefix, suffix) ==
    <<[Name |-> "prefix", Value |-> prefix]>>
    \o (IF suffix # EmptyStr THEN <<[Name |-> "suffix", Value |-> suffix]>> ELSE << >>)

\* the configuration setup_s3_trigger attaches to the bucket
SetupS3Trigger(prefix, suffix) ==
    <<[Events |-> {"s3:ObjectCreated:*"}, FilterRules |-> FilterRules(prefix, suffix)]>>

\* a configuration whose filter lets every key through
MatchesEveryKey(config, key) == TRUE

\* the key passes every filter rule of the configuration
MatchesFilter(config, key) ==
    \A i \in DOMAIN config.FilterRules :
        LET rule == config.FilterRules[i] IN
        IF rule.Name = "prefix" THEN StartsWith(key, rule.Value)
        ELSE EndsWith(key, rule.Value)

\* an object was created at `key`: S3 notifies once per configuration that
\* subscribes to object creation and whose filter the key passes
Notified(key) ==
    {i \in DOMAIN trigger :
        "s3:ObjectCreated:*" \in trigger[i].Events /\ MatchesFilter(trigger[i], key)}

\* a put_object that ended with `outcome`
Notify(key, outcome) ==
    events' = IF outcome = "ok" /\ Notified(key) # {}
              THEN events (+) SetToBag({key}) ELSE events

\* the ways a call can end: normally, or, while failures remain, with a
\* botocore ClientError or with another exception (connection error, timeout)
Outcomes == {"ok"} \cup (IF faultsLeft > 0 THEN {"ClientError", "Error"} ELSE {})

Spend(outcome) == faultsLeft' = IF outcome = "ok" THEN faultsLeft ELSE faultsLeft - 1

\* the history of the external calls made for the current record: which
\* call, how it ended, and whether the object at `key` was in the store when
\* it was made
Called(n, op, key, outcome) ==
    calls' = [calls EXCEPT ![n][inv[n].i].log =
                Append(@, [op |-> op, outcome |-> outcome,
                           existed |-> key \in DOMAIN store])]

\* the history entry of a record just taken from the batch
Taken(n, key) == calls' = [calls EXCEPT ![n] = Append(@, [key |-> key, log |-> << >>])]

Result(n, output, status, detail) ==
    [rec |-> inv[n].i, source |-> inv[n].key, output |-> output,
     status |-> status, detail |-> detail]

\* results.append(...) and on to the next record
Finish(loc, result) ==
    [loc EXCEPT !.results = Append(@, result), !.i = @ + 1, !.pc = "loop"]

\* an except clause that reports nothing and lets the record go on to the
\* markdown write
FailedButGoesOn(n) == [inv[n] EXCEPT !.pc = "put_md"]

\* the except clause of lines 277-283
Failed(n) == Finish(inv[n], Result(n, EmptyStr, "failed", "error"))

\* lines 269-273
Succeeded(n, loc) == Finish(loc, Result(n, inv[n].output_key, "success", "ok"))

\* lines 44-58: the next record, or the return of line 286
NextRecord(n) ==
    /\ inv[n].pc = "loop"
    /\ LET loc == inv[n] IN
       IF loc.i > Len(loc.records)
       THEN /\ inv' = [inv EXCEPT ![n].pc = "returned"]
            /\ UNCHANGED calls
       ELSE LET key == UnquotePlus(loc.records[loc.i])
                doc_id == Basename(key)
            IN  /\ Taken(n, key)
                /\ IF IsFolderKey(key)
                   THEN inv' = [inv EXCEPT ![n].key = key, ![n].i = @ + 1]
                   ELSE IF doc_id = EmptyStr
                   THEN inv' = [inv EXCEPT ![n].key = key, ![n].doc_id = doc_id,
                                           ![n].i = @ + 1]
                   ELSE inv' = [inv EXCEPT ![n].key = key, ![n].doc_id = doc_id,
                                           ![n].pc = "ensure", ![n].f = 1]
    /\ UNCHANGED <<OUTPUT_FOLDER, FORCE_REPROCESS, store, uploaded, parsed, faultsLeft, imports, req, lastCall, trigger, events>>

\* lines 61-83: ensure_s3_folders puts the two folder placeholders (a failure
\* is caught and printed); then the input-prefix check and the markdown key
EnsureFolder(n) ==
    /\ inv[n].pc = "ensure"
    /\ LET loc == inv[n]
           folder == <<INPUT_FOLDER, OUTPUT_FOLDER>>[loc.f]
           rel == RelativePath(loc.key)
           subfolder == Subfolder(rel)
           filename == Filename(rel)
           fwe == FilenameWithoutExt(filename)
       IN
       \E outcome \in (IF folder = EmptyStr THEN {"ClientError"} ELSE Outcomes) :
         /\ IF folder = EmptyStr
            THEN UNCHANGED faultsLeft    \* an empty Key is rejected by the client
            ELSE Spend(outcome)
         /\ Called(n, "put_folder", folder, outcome)
         /\ Notify(folder, outcome)
         /\ store' = IF outcome = "ok" THEN StorePut(store, folder, EmptyBody) ELSE store
         /\ IF loc.f = 1
            THEN inv' = [inv EXCEPT ![n].f = 2]
            ELSE IF ~UnderInputFolder(loc.key)
            THEN inv' = [inv EXCEPT ![n].i = @ + 1, ![n].pc = "loop"]
            ELSE inv' = [inv EXCEPT ![n].subfolder = subfolder,
                                    ![n].filename = filename,
                                    ![n].filename_without_ext = fwe,
                                    ![n].output_key = OutputKey(OUTPUT_FOLDER, subfolder, fwe),
                                    ![n].pc = IF FORCE_REPROCESS THEN "get" ELSE "head"]
    /\ UNCHANGED <<OUTPUT_FOLDER, FORCE_REPROCESS, uploaded, parsed, imports, req, lastCall, trigger>>

\* lines 86-99: the already-processed check
HeadObject(n) ==
    /\ inv[n].pc = "head"
    /\ \E outcome \in Outcomes :
         /\ Spend(outcome)
         /\ Called(n, "head", inv[n].output_key, outcome)
         /\ IF outcome = "ok" /\ HeadFound(store, inv[n].output_key)
            THEN inv' = [inv EXCEPT ![n] =
                           Finish(@, Result(n, inv[n].output_key, "skipped", "already_processed"))]
            ELSE IF outcome = "Error"
            THEN inv' = [inv EXCEPT ![n].pc = "raised"]   \* not a ClientError: not caught
            ELSE inv' = [inv EXCEPT ![n].pc = "get"]      \* ClientError (404 or a failure)
    /\ UNCHANGED <<OUTPUT_FOLDER, FORCE_REPROCESS, store, uploaded, parsed, imports, req, lastCall, trigger, events>>

\* lines 103-107: fetch the source document
GetObject(n) ==
    /\ inv[n].pc = "get"
    /\ \E outcome \in Outcomes \ {"ClientError"} :
         /\ Spend(outcome)
         /\ Called(n, "get", inv[n].key, outcome)
         /\ IF outcome = "ok" /\ inv[n].key \in DOMAIN store
            THEN inv' = [inv EXCEPT ![n].file_bytes = store[inv[n].key], ![n].pc = "parse"]
            ELSE inv' = [inv EXCEPT ![n] = Failed(n)]
    /\ UNCHANGED <<OUTPUT_FOLDER, FORCE_REPROCESS, store, uploaded, parsed, imports, req, lastCall, trigger, events>>

\* lines 111-112: the parsing service; `markdown = response.markdown` raises
\* AttributeError, caught at line 277, when the response has no markdown
Parse(n) ==
    /\ inv[n].pc = "parse"
    /\ \E outcome \in Outcomes \ {"ClientError"} :
         /\ Spend(outcome)
         /\ Called(n, "parse", inv[n].key, outcome)
         /\ IF outcome = "ok" /\ HasAttr(parsed, "markdown")
            THEN inv' = [inv EXCEPT ![n].response = ParseResponse(inv[n].file_bytes, parsed),
                                    ![n].pc = "put_md"]
            ELSE inv' = [inv EXCEPT ![n] = Failed(n)]
    /\ UNCHANGED <<OUTPUT_FOLDER, FORCE_REPROCESS, store, uploaded, parsed, imports, req, lastCall, trigger, events>>

\* lines 118-211: write the markdown, derive the grounding and chunk
\* locations, build chunks_data; without chunks the record is done
PutMarkdown(n) ==
    /\ inv[n].pc = "put_md"
    /\ LET loc == inv[n]
           layout == GroundingLayout(loc.output_key)
           chunks_data == ChunksData(loc.response)
           derived == [loc EXCEPT !.base_folder = layout.base_folder,
                                  !.grounding_folder = layout.grounding_folder,
                                  !.grounding_key = layout.grounding_key,
                                  !.chunks_folder = layout.chunks_folder,
                                  !.chunks_data = chunks_data]
       IN
       \E outcome \in Outcomes \ {"ClientError"} :
         /\ Spend(outcome)
         /\ Called(n, "put_md", loc.output_key, outcome)
         /\ Notify(loc.output_key, outcome)
         /\ IF outcome = "ok"
            THEN /\ store' = StorePut(store, loc.output_key,
                                      Body("text/markdown", loc.response.markdown, << >>))
                 /\ inv' = [inv EXCEPT ![n] =
                              IF ~HasChunks(chunks_data) THEN Succeeded(n, derived)
                              ELSE [derived EXCEPT !.pc = "put_grounding"]]
            ELSE /\ store' = store
                 /\ inv' = [inv EXCEPT ![n] = Failed(n)]
    /\ UNCHANGED <<OUTPUT_FOLDER, FORCE_REPROCESS, uploaded, parsed, imports, req, lastCall, trigger>>

\* lines 216-230: write the grounding JSON; a failure is caught by the inner
\* except (line 266) and the record still ends as success
PutGrounding(n) ==
    /\ inv[n].pc = "put_grounding"
    /\ LET loc == inv[n]
           first == NextChunk(loc.chunks_data, 1)
       IN
       \E outcome \in Outcomes \ {"ClientError"} :
         /\ Spend(outcome)
         /\ Called(n, "put_grounding", loc.grounding_key, outcome)
         /\ Notify(loc.grounding_key, outcome)
         /\ IF outcome = "ok"
            THEN /\ store' = StorePut(store, loc.grounding_key,
                                      Body("application/json", loc.response.markdown,
                                           <<GroundingData(loc.response)>>))
                 /\ inv' = [inv EXCEPT ![n] =
                              IF first > Len(loc.chunks_data) THEN Succeeded(n, loc)
                              ELSE [loc EXCEPT !.j = first, !.pc = "put_chunk"]]
            ELSE /\ store' = store
                 /\ inv' = [inv EXCEPT ![n] = Succeeded(n, loc)]
    /\ UNCHANGED <<OUTPUT_FOLDER, FORCE_REPROCESS, uploaded, parsed, imports, req, lastCall, trigger>>

\* lines 227-260: write the JSON of the next chunk that has an id; a failure
\* is caught by the inner except and ends the loop
PutChunk(n) ==
    /\ inv[n].pc = "put_chunk"
    /\ LET loc == inv[n]
           chunk == loc.chunks_data[loc.j]
           chunk_key == ChunkKey(loc.chunks_folder, loc.filename_without_ext, chunk.id)
           next == NextChunk(loc.chunks_data, loc.j + 1)
       IN
       \E outcome \in Outcomes \ {"ClientError"} :
         /\ Spend(outcome)
         /\ Called(n, "put_chunk", chunk_key, outcome)
         /\ Notify(chunk_key, outcome)
         /\ IF outcome = "ok"
            THEN /\ store' = StorePut(store, chunk_key,
                                      Body("application/json", loc.filename_without_ext,
                                           <<ChunkJson(chunk, loc.filename_without_ext)>>))
                 /\ inv' = [inv EXCEPT ![n] =
                              IF next > Len(loc.chunks_data) THEN Succeeded(n, loc)
                              ELSE [loc EXCEPT !.j = next]]
            ELSE /\ store' = store
                 /\ inv' = [inv EXCEPT ![n] = Succeeded(n, loc)]
    /\ UNCHANGED <<OUTPUT_FOLDER, FORCE_REPROCESS, uploaded, parsed, imports, req, lastCall, trigger>>

Next ==
    \/ \E n \in Invocations : NextRecord(n)
    \/ \E n \in Invocations : EnsureFolder(n)
    \/ \E n \in Invocations : HeadObject(n)
    \/ \E n \in Invocations : GetObject(n)
    \/ \E n \in Invocations : Parse(n)
    \/ \E n \in Invocations : PutMarkdown(n)
    \/ \E n \in Invocations : PutGrounding(n)
    \/ \E n \in Invocations : PutChunk(n)

Spec == Init /\ [][Next]_vars

SpecKeys == InitKeys /\ [][Next]_vars

SpecConc == InitConc /\ [][Next]_vars

SpecParse == InitParse /\ [][Next]_vars

(***************************************************************************)
(* The deployed system: the bucket notifies the function of the objects    *)
(* created under the trigger's filter, the handler's own writes included.  *)
(***************************************************************************)
\* the documents a user uploads: two that differ only in their extension
TriggerDocs == {Doc(<<S_medical>>, S_report, S_pdf), Doc(<<S_medical>>, S_report, S_txt)}

\* neither of the two folders is a prefix of the other
SeparateFolders(a, b) == ~StartsWith(a, b) /\ ~StartsWith(b, a)

\* an empty bucket with setup_s3_trigger's configuration on the input
\* folder, with or without a suffix; no call fails
InitTrigger ==
    /\ OUTPUT_FOLDER \in {f \in OutputFolders : SeparateFolders(INPUT_FOLDER, f)}
    /\ FORCE_REPROCESS \in BOOLEAN
    /\ store = << >>
    /\ uploaded = {}
    /\ inv = << >>
    /\ calls = << >>
    /\ parsed = Answer(<<Chunk(S_c1)>>)
    /\ faultsLeft = 0
    /\ NoImageCalls
    /\ \E suffix \in {EmptyStr, S_pdf} : trigger = SetupS3Trigger(INPUT_FOLDER, suffix)
    /\ events = EmptyBag

\* a user puts a document into the bucket
Upload(d) ==
    /\ d \notin uploaded
    /\ store' = StorePut(store, KeyOfDoc(d), SourceBody(KeyOfDoc(d)))
    /\ uploaded' = uploaded \cup {d}
    /\ Notify(KeyOfDoc(d), "ok")
    /\ UNCHANGED <<OUTPUT_FOLDER, FORCE_REPROCESS, inv, calls, parsed, faultsLeft,
                   imports, req, lastCall, trigger>>

\* Lambda starts ade_handler on the event of one notified object
Invoke(key) ==
    /\ events' = events (-) SetToBag({key})
    /\ inv' = Append(inv, NewInvocation(<<QuotePlus(key)>>))
    /\ calls' = Append(calls, << >>)
    /\ UNCHANGED <<OUTPUT_FOLDER, FORCE_REPROCESS, store, uploaded, parsed, faultsLeft,
                   imports, req, lastCall, trigger>>

NextTrigger ==
    \/ \E d \in TriggerDocs : Upload(d)
    \/ \E key \in BagToSet(events) : Invoke(key)
    \/ \E n \in Invocations : NextRecord(n)
    \/ \E n \in Invocations : EnsureFolder(n)
    \/ \E n \in Invocations : HeadObject(n)
    \/ \E n \in Invocations : GetObject(n)
    \/ \E n \in Invocations : Parse(n)
    \/ \E n \in Invocations : PutMarkdown(n)
    \/ \E n \in Invocations : PutGrounding(n)
    \/ \E n \in Invocations : PutChunk(n)

SpecTrigger == InitTrigger /\ [][NextTrigger]_vars

(***************************************************************************)
(* The image helpers, one action per call of a function.                   *)
(***************************************************************************)
\* where a call may fail: nowhere, or at one of `ops`
FailPoints(ops) == {"none"} \cup ops

\* the call is over: its record and the object it wrote; `pixels` are the
\* pixel positions (x0, y0, x1, y1) of the box a crop rectangle was computed from
Done(fn, res, existed, highlight, force_recreate, pixels) ==
    /\ lastCall' = [fn |-> fn, existed |-> existed, highlight |-> highlight,
                    force_recreate |-> force_recreate,
                    ret |-> res.ret, raised |-> res.raised, log |-> res.log,
                    wrote |-> res.wrote, mode |-> res.mode, rect |-> res.rect,
                    mark |-> res.mark,
                    pixels |-> IF res.rect = << >> THEN << >> ELSE pixels]
    /\ store' = IF res.wrote = << >> THEN store
                ELSE StorePut(store, res.wrote[1],
                              Body("image/png", req.source_pdf_key, << >>))
    /\ UNCHANGED <<OUTPUT_FOLDER, FORCE_REPROCESS, inv, calls, uploaded, parsed, faultsLeft,
                   imports, req, trigger, events>>

\* render_pdf_page(pdf_bytes, page_num)
RenderPdfPage ==
    \E failAt \in FailPoints({"render"}) :
        Done("render_pdf_page", RenderPdfPageResult(imports, failAt), FALSE, FALSE, FALSE,
             << >>)

\* extract_chunk_image(s3_client, bucket, source_pdf_key, bbox, page_num,
\* chunk_id, source_document, highlight, padding)
ExtractChunkImage ==
    \E failAt \in FailPoints({"head", "get", "render", "put"}) :
      \E ax \in (IF Len(req.bbox) # 4 THEN {<<0, 0>>}
                 ELSE PixelChoices(req.bbox[1], req.bbox[3], PageWidth, ImageWidth)),
         ay \in (IF Len(req.bbox) # 4 THEN {<<0, 0>>}
                 ELSE PixelChoices(req.bbox[2], req.bbox[4], PageHeight, ImageHeight)) :
        LET highlight == req.highlight
            rect == CropRect(req.padding, ax, ay)
            refusable == Len(req.bbox) = 4
                           /\ (EmptyRect(rect)
                               \/ (highlight /\ Inverted(HighlightRect(req.padding, rect))))
        IN  \E pilRaises \in (IF refusable THEN BOOLEAN ELSE {FALSE}) :
              Done("extract_chunk_image",
                   ExtractChunkImageResult(store, imports, req, highlight, failAt, ax, ay, pilRaises),
                   K_report_image \in DOMAIN store, highlight, FALSE,
                   <<ax[1], ay[1], ax[2], ay[2]>>)

\* create_annotated_image_from_pdf(pdf_bytes, page_num, [box], output_s3_key, ...)
CreateAnnotatedImageFromPdf ==
    \E failAt \in FailPoints({"render", "put"}) :
      \E pilRaises \in (IF Inverted(AnnotationRect(BoxAsDict(req.bbox))) THEN BOOLEAN ELSE {FALSE}) :
        Done("create_annotated_image_from_pdf",
             CreateAnnotatedImageResult(imports, BoxAsDict(req.bbox), K_report_annotation,
                                        failAt, pilRaises),
             K_report_annotation \in DOMAIN store, FALSE, FALSE, << >>)

\* get_or_create_annotated_image(s3_client, bucket, source_pdf_key, chunk_id,
\* grounding_info, chunk_type, force_recreate)
GetOrCreateAnnotatedImage ==
    \E force_recreate \in BOOLEAN, failAt \in FailPoints({"head", "get", "render", "put"}) :
      \E pilRaises \in (IF Inverted(AnnotationRect(BoxAsDict(req.bbox))) THEN BOOLEAN ELSE {FALSE}) :
        Done("get_or_create_annotated_image",
             GetOrCreateAnnotatedImageResult(store, imports, req, force_recreate, failAt, pilRaises),
             K_report_annotation \in DOMAIN store, FALSE, force_recreate, << >>)

NextImage ==
    \/ RenderPdfPage
    \/ ExtractChunkImage
    \/ CreateAnnotatedImageFromPdf
    \/ GetOrCreateAnnotatedImage

SpecImage == InitImage /\ [][NextImage]_vars

(***************************************************************************)
(* Properties.                                                             *)
(***************************************************************************)
\* positions at which the markdown key of the current record is derived
KeyedPcs == {"head", "get", "parse", "put_md", "put_grounding", "put_chunk"}

\* positions at which its grounding and chunk locations are derived
LayoutPcs == {"put_grounding", "put_chunk"}

\* the subfolder of a document as a path string followed by "/", empty when
\* the document lies directly in the input folder
SubfolderPrefix(d) == IF d.sub = << >> THEN EmptyStr ELSE JoinSlash(d.sub) \o Slash

\* the path of a document below its first subfolder segment, without extension
RelativeStemPath(d) == JoinSlash(Tail(d.sub) \o <<d.stem>>)

K_report_md == S_output \o S_medical \o Slash \o S_report \o S_md
K_acme_grounding ==
    S_output \o S_invoices \o S_grounding \o Slash \o S_2024 \o Slash \o S_acme \o S_grounding_json
K_invoices_chunks == S_output \o S_invoices \o S_chunks_slash

\* C1: for every uploaded document (subfolder segments, stem, extension) whose key
\* lies under the input folder, the markdown key the handler computes from the
\* key string is outputFolder + subfolder + "/" + stem + ".md", or
\* outputFolder + stem + ".md" without subfolder; it ends in ".md" whatever
\* the source extension.  Checked for every configured output folder.
C1_MarkdownKey ==
    \A n \in Invocations : \A d \in uploaded :
        (inv[n].pc \in KeyedPcs /\ inv[n].key = KeyOfDoc(d)) =>
            /\ inv[n].output_key = OUTPUT_FOLDER \o SubfolderPrefix(d) \o d.stem \o S_md
            /\ EndsWith(inv[n].output_key, S_md)

\* input/medical/report.pdf has been mapped to output/medical/report.md
C1_Witness ==
    \E n \in Invocations :
        /\ inv[n].pc \in KeyedPcs
        /\ inv[n].key = K_report
        /\ inv[n].output_key = K_report_md

\* C2: with output folder "output/", for every key with a subfolder of any
\* depth, groundingFolder = "output/" + firstSegment + "_grounding" and
\* chunksFolder = "output/" + firstSegment + "_chunks/"; and
\* input/invoices/2024/acme.pdf gives the grounding key
\* output/invoices_grounding/2024/acme_grounding.json and the chunks folder
\* output/invoices_chunks/.
C2_FirstSegmentOnly ==
    \A n \in Invocations : \A d \in uploaded :
        (/\ OUTPUT_FOLDER = S_output
         /\ inv[n].pc \in LayoutPcs
         /\ inv[n].key = KeyOfDoc(d)
         /\ d.sub # << >>) =>
            /\ inv[n].grounding_folder = S_output \o d.sub[1] \o S_grounding
            /\ inv[n].chunks_folder = S_output \o d.sub[1] \o S_chunks_slash
            /\ inv[n].key = K_acme =>
                  /\ inv[n].grounding_key = K_acme_grounding
                  /\ inv[n].chunks_folder = K_invoices_chunks

\* the layout of input/invoices/2024/acme.pdf (two levels deep) has been derived
C2_Witness ==
    \E n \in Invocations :
        /\ OUTPUT_FOLDER = S_output
        /\ inv[n].pc \in LayoutPcs
        /\ inv[n].key = K_acme
        /\ inv[n].grounding_key = K_acme_grounding

\* C3: with output folder "output/", a key without subfolder gets the flat
\* layout: groundingKey = outputFolder + stem + "_grounding.json" and
\* chunksFolder = outputFolder + "chunks/".
C3_FlatFallback ==
    \A n \in Invocations : \A d \in uploaded :
        (/\ OUTPUT_FOLDER = S_output
         /\ inv[n].pc \in LayoutPcs
         /\ inv[n].key = KeyOfDoc(d)
         /\ d.sub = << >>) =>
            /\ inv[n].output_key = S_output \o d.stem \o S_md
            /\ inv[n].grounding_key = S_output \o d.stem \o S_grounding_json
            /\ inv[n].chunks_folder = S_output_chunks

\* C4: for every key with a subfolder (default output folder), groundingKey =
\* groundingFolder + "/" + relativeStemPath + "_grounding.json", also when a
\* deeper folder name or the stem contains ".md".
C4_GroundingKey ==
    \A n \in Invocations : \A d \in uploaded :
        (/\ OUTPUT_FOLDER = S_output
         /\ inv[n].pc \in LayoutPcs
         /\ inv[n].key = KeyOfDoc(d)
         /\ d.sub # << >>) =>
            inv[n].grounding_key =
                inv[n].grounding_folder \o Slash \o RelativeStemPath(d) \o S_grounding_json

\* C5: for every configured output folder and every key with a subfolder,
\* baseFolder = outputFolder + firstSegment(subfolder), groundingFolder =
\* baseFolder + "_grounding" and chunksFolder = baseFolder + "_chunks/".
C5_BaseFolderAnyOutputFolder ==
    \A n \in Invocations : \A d \in uploaded :
        (/\ inv[n].pc \in LayoutPcs
         /\ inv[n].key = KeyOfDoc(d)
         /\ d.sub # << >>) =>
            /\ inv[n].base_folder = OUTPUT_FOLDER \o d.sub[1]
            /\ inv[n].grounding_folder = OUTPUT_FOLDER \o d.sub[1] \o S_grounding
            /\ inv[n].chunks_folder = OUTPUT_FOLDER \o d.sub[1] \o S_chunks_slash

S_chunk_images == <<"_", "c", "h", "u", "n", "k", "_", "i", "m", "a", "g", "e", "s">>

\* C6: for every document in a subfolder (default output folder) the five
\* locations share the base outputFolder + top-level subfolder: the markdown
\* key lies under it, and the grounding folder, the grounding key, the chunks
\* folder and the chunk-images folder are the base with the suffixes
\* _grounding, _chunks, _chunk_images.
C6_SharedBaseFolder ==
    \A n \in Invocations : \A d \in uploaded :
        (/\ OUTPUT_FOLDER = S_output
         /\ inv[n].pc \in LayoutPcs
         /\ inv[n].key = KeyOfDoc(d)
         /\ d.sub # << >>) =>
            LET base == OUTPUT_FOLDER \o d.sub[1] IN
            /\ StartsWith(inv[n].output_key, base \o Slash)
            /\ inv[n].grounding_folder = base \o S_grounding
            /\ StartsWith(inv[n].grounding_key, base \o S_grounding \o Slash)
            /\ inv[n].chunks_folder = base \o S_chunks_slash
            /\ ChunkImagesFolder = base \o S_chunk_images
            /\ \A k \in 1..Len(inv[n].chunks_data) :
                  StartsWith(ImageKey(inv[n].filename_without_ext, inv[n].chunks_data[k].id),
                             base \o S_chunk_images \o Slash)

\* a key the handler passes over: a directory placeholder, or a key outside
\* the input folder
SkipKey(key) == EndsWith(key, Slash) \/ ~StartsWith(key, INPUT_FOLDER)

\* the calls that process a document: existence check, fetch, parser, writes
ProcessingOps == {"head", "get", "parse", "put_md", "put_grounding", "put_chunk"}

\* the calls that fetch, parse or write a document
WorkOps == {"get", "parse", "put_md", "put_grounding", "put_chunk"}

\* the external calls made so far for record r of invocation n
CallsOf(n, r) == {calls[n][r].log[k] : k \in 1..Len(calls[n][r].log)}

ResultsOf(n, r) == {k \in 1..Len(inv[n].results) : inv[n].results[k].rec = r}

\* the records of invocation n whose handling is over
Handled(n) == {r \in 1..Len(calls[n]) : r < inv[n].i}

\* C7: a record whose key ends in "/" or lies outside the input folder is
\* skipped: no exception leaves the handler because of it, no existence
\* check, fetch, parser call or markdown/grounding/chunk write is made for
\* it, and no result (so none with status failed) is appended for it.
C7_SkipIsNotAnError ==
    \A n \in Invocations : \A r \in 1..Len(calls[n]) :
        SkipKey(calls[n][r].key) =>
            /\ \A c \in CallsOf(n, r) : c.op \notin ProcessingOps
            /\ ResultsOf(n, r) = {}
            /\ ~(inv[n].pc = "raised" /\ inv[n].i = r)

\* a batch of a directory placeholder and a key outside the input folder has
\* been handled to the end
C7_Witness ==
    \E n \in Invocations :
        /\ inv[n].records = <<K_folder, K_outside>>
        /\ inv[n].pc = "returned"
        /\ \E c \in CallsOf(n, 2) : c.op = "put_folder"

C9_FailureIsolation ==
    \A n \in Invocations :
        /\ inv[n].pc # "raised"
        /\ \A r \in Handled(n) :
             (\E c \in CallsOf(n, r) : c.op \in WorkOps /\ c.outcome # "ok") =>
                 \E x \in ResultsOf(n, r) : inv[n].results[x].status = "failed"

\* the objects of a function given as a set of <<key, body>> pairs
AsStore(pairs) ==
    [k \in {p[1] : p \in pairs} |-> (CHOOSE p \in pairs : p[1] = k)[2]]

\* the bucket after one invocation alone has handled `key` with every call
\* succeeding: the source, the folder placeholders, the markdown, and,
\* when the parser found chunks, the grounding JSON and one JSON per chunk
\* that has an id
SingleRunStore(key, answer) ==
    LET rel == RelativePath(key)
        fwe == FilenameWithoutExt(Filename(rel))
        output_key == OutputKey(OUTPUT_FOLDER, Subfolder(rel), fwe)
        layout == GroundingLayout(output_key)
        response == ParseResponse(SourceBody(key), answer)
        chunks_data == ChunksData(response)
    IN  AsStore(
            {<<key, SourceBody(key)>>,
             <<output_key, Body("text/markdown", response.markdown, << >>)>>}
            \cup {<<folder, EmptyBody>> : folder \in {INPUT_FOLDER, OUTPUT_FOLDER} \ {EmptyStr}}
            \cup (IF chunks_data = << >> THEN {}
                  ELSE {<<layout.grounding_key,
                          Body("application/json", response.markdown,
                               <<GroundingData(response)>>)>>})
            \cup {<<ChunkKey(layout.chunks_folder, fwe, chunks_data[k].id),
                    Body("application/json", fwe, <<ChunkJson(chunks_data[k], fwe)>>)>> :
                  k \in {x \in 1..Len(chunks_data) : chunks_data[x].id # EmptyStr}})

\* SingleRunStore is what one invocation on one record leaves when no call
\* fails (an invariant of SpecKeys)
SingleRunReference ==
    \A n \in Invocations :
        (/\ Cardinality(Invocations) = 1
         /\ inv[n].pc = "returned") =>
            store = SingleRunStore(inv[n].records[1], parsed)

\* every invocation handles the same single record
SameKeyInvocations ==
    \A n, m \in Invocations : Len(inv[n].records) = 1 /\ inv[n].records = inv[m].records

\* C10: two concurrent invocations for the same key, deterministic parser, no
\* call failing: under every interleaving no object is ever in the bucket
\* that a single invocation would not write, none has another content, and
\* once both have returned the bucket is exactly the one a single invocation
\* leaves.
C10_ConcurrentSameKey ==
    (Cardinality(Invocations) = 2 /\ SameKeyInvocations) =>
        LET single == SingleRunStore(UnquotePlus(inv[1].records[1]), parsed) IN
        /\ \A k \in DOMAIN store : k \in DOMAIN single /\ store[k] = single[k]
        /\ (\A n \in Invocations : inv[n].pc = "returned") => store = single

\* both invocations passed the already-processed check (neither found the
\* markdown), both wrote, both returned with status success
C10_Witness ==
    /\ Cardinality(Invocations) = 2
    /\ SameKeyInvocations
    /\ ~FORCE_REPROCESS
    /\ \A n \in Invocations :
         /\ inv[n].pc = "returned"
         /\ Len(inv[n].results) = 1
         /\ inv[n].results[1].status = "success"
         /\ \E c \in CallsOf(n, 1) : c.op = "head" /\ ~c.existed
         /\ \E c \in CallsOf(n, 1) : c.op = "put_chunk"

\* the results appended for record r of invocation n with the given status
Reported(n, r, status) == {x \in ResultsOf(n, r) : inv[n].results[x].status = status}

\* the keys of the objects in the bucket with the given content type
KeysOfType(ctype) == {k \in DOMAIN store : store[k].ctype = ctype}

\* C11: when the response has no chunks field or zero chunks, no grounding
\* JSON and no per-chunk JSON is written (no such write is attempted, no
\* JSON object is in the bucket); when it carries markdown the markdown
\* object is written and the record is reported with status success.
C11_NoChunksNoGrounding ==
    \A n \in Invocations : \A r \in Handled(n) :
        (Cardinality(Invocations) = 1 /\ ChunksData(parsed) = << >>) =>
            /\ \A c \in CallsOf(n, r) : c.op \notin {"put_grounding", "put_chunk"}
            /\ KeysOfType("application/json") = {}
            /\ (HasAttr(parsed, "markdown") /\ ~SkipKey(calls[n][r].key)
                  /\ \A c \in CallsOf(n, r) : c.outcome = "ok" \/ c.op = "put_folder") =>
                  /\ Reported(n, r, "success") # {}
                  /\ MarkdownKeyOf(OUTPUT_FOLDER, calls[n][r].key) \in KeysOfType("text/markdown")

\* a response without chunks field, with markdown: the record is over, the
\* markdown is in the bucket
C11_Witness ==
    \E n \in Invocations :
        /\ ~HasAttr(parsed, "chunks")
        /\ HasAttr(parsed, "markdown")
        /\ inv[n].pc = "returned"
        /\ Reported(n, 1, "success") # {}
        /\ K_report_md \in DOMAIN store

\* C12: whichever of markdown, chunks, splits, metadata the response lacks,
\* and whichever fields a chunk, its grounding, its box, a split or the
\* metadata lack, no error propagates: with every store and parser call
\* succeeding the record is not reported failed, and the grounding record is
\* built from the defaults (it is in the bucket when there are chunks).
C12_TolerantExtraction ==
    \A n \in Invocations : \A r \in Handled(n) :
        (/\ Cardinality(Invocations) = 1
         /\ \A c \in CallsOf(n, r) : c.outcome = "ok" \/ c.op = "put_folder") =>
            /\ Reported(n, r, "failed") = {}
            /\ (Reported(n, r, "success") # {} /\ ChunksData(parsed) # << >>) =>
                  \E k \in KeysOfType("application/json") :
                      store[k].data = <<GroundingData(ParseResponse(SourceBody(calls[n][r].key), parsed))>>

\* the keys of the per-chunk JSON objects in the bucket
ChunkObjectKeys ==
    {k \in KeysOfType("application/json") : "chunk_id" \in DOMAIN store[k].data[1]}

\* the non-empty chunk ids of a parser response
ChunkIds(response) ==
    IF HasAttr(response, "chunks")
    THEN {GetAttr(response.chunks[k], "id", EmptyStr) : k \in 1..Len(response.chunks)}
             \ {EmptyStr}
    ELSE {}

K_report_c1 == S_output \o S_medical \o S_chunks_slash \o S_report \o Underscore \o S_c1 \o S_json
K_report_c2 == S_output \o S_medical \o S_chunks_slash \o S_report \o Underscore \o S_c2 \o S_json

\* C13: once a document with at least one chunk has been processed with
\* every call succeeding and reported success, the per-chunk JSON objects in
\* the bucket are exactly those at chunksFolder + stem + "_" + chunkId +
\* ".json", one for each non-empty chunk id of the response: none for a
\* chunk whose id is empty or missing, none at any other key.
C13_ChunkObjectKeys ==
    \A n \in Invocations : \A d \in uploaded :
        (/\ Cardinality(Invocations) = 1
         /\ inv[n].pc = "returned"
         /\ inv[n].records = <<KeyOfDoc(d)>>
         /\ Reported(n, 1, "success") # {}
         /\ \A c \in CallsOf(n, 1) : c.outcome = "ok"
         /\ ChunksData(parsed) # << >>) =>
            ChunkObjectKeys =
                {inv[n].chunks_folder \o d.stem \o Underscore \o id \o S_json :
                    id \in ChunkIds(parsed)}

\* report.pdf with chunks c1, (no id), c2: exactly the objects of c1 and c2
C13_Witness ==
    \E n \in Invocations :
        /\ inv[n].pc = "returned"
        /\ Reported(n, 1, "success") # {}
        /\ Len(ChunksData(parsed)) = 3
        /\ ChunkObjectKeys = {K_report_c1, K_report_c2}

\* the calls of record r of invocation n in the order they were made
LogOf(n, r) == calls[n][r].log

\* the position of a call in the order fetch, parser, markdown, grounding, chunk
Rank(op) ==
    CASE op = "get" -> 1
      [] op = "parse" -> 2
      [] op = "put_md" -> 3
      [] op = "put_grounding" -> 4
      [] op = "put_chunk" -> 5
      [] OTHER -> 0

\* a call `op` of record r of invocation n has succeeded before position k
DoneBefore(n, r, op, k) ==
    \E m \in 1..(k - 1) : LogOf(n, r)[m].op = op /\ LogOf(n, r)[m].outcome = "ok"

\* C19: within the handling of one record the calls occur in the order
\* fetch, parser, markdown write, grounding write, per-chunk writes, each
\* made only after the one before it succeeded in the same invocation: so
\* whatever calls fail, a grounding or per-chunk JSON is written only after
\* the markdown write of that invocation succeeded, a per-chunk JSON only
\* after its grounding write succeeded, and no markdown, grounding or
\* per-chunk object is written for a record whose fetch or parser call failed.
C19_CallOrder ==
    \A n \in Invocations : \A r \in 1..Len(calls[n]) :
        \A k \in 1..Len(LogOf(n, r)) :
            LET c == LogOf(n, r)[k] IN
            /\ \A m \in 1..(k - 1) : Rank(LogOf(n, r)[m].op) <= Rank(c.op)
            /\ c.op = "parse" => DoneBefore(n, r, "get", k)
            /\ c.op = "put_md" => DoneBefore(n, r, "parse", k)
            /\ c.op = "put_grounding" => DoneBefore(n, r, "put_md", k)
            /\ c.op = "put_chunk" => DoneBefore(n, r, "put_grounding", k)
            /\ (c.op \in {"get", "parse"} /\ c.outcome # "ok") =>
                  \A m \in 1..Len(LogOf(n, r)) :
                      LogOf(n, r)[m].op \notin {"put_md", "put_grounding", "put_chunk"}

\* a record went through all five calls, and another one's parser call failed
C19_Witness ==
    \E n \in Invocations :
        /\ inv[n].pc = "returned"
        /\ Len(calls[n]) = 2
        /\ \E c \in CallsOf(n, 1) : c.op = "put_chunk" /\ c.outcome = "ok"
        /\ \E c \in CallsOf(n, 2) : c.op = "parse" /\ c.outcome # "ok"

\* the calls that write to the bucket
WriteOps == {"put_folder", "put_md", "put_grounding", "put_chunk"}

\* so far only writes have failed
OnlyWritesFailed ==
    \A n \in Invocations : \A r \in 1..Len(calls[n]) :
        \A c \in CallsOf(n, r) : c.outcome # "ok" => c.op \in WriteOps

\* the grounding key of an input key
GroundingKeyOf(key) == GroundingLayout(MarkdownKeyOf(OUTPUT_FOLDER, key)).grounding_key

\* C20: reprocessing not forced, the parser yielding at least one chunk:
\* whatever writes fail, whenever a record is reported success or skipped
\* (already_processed) the grounding JSON of its document is in the bucket.
C20_ArtifactCompleteness ==
    \A n \in Invocations : \A x \in 1..Len(inv[n].results) :
        (/\ ~FORCE_REPROCESS
         /\ ChunksData(parsed) # << >>
         /\ OnlyWritesFailed
         /\ inv[n].results[x].status \in {"success", "skipped"}) =>
            GroundingKeyOf(inv[n].results[x].source) \in DOMAIN store

\* the rectangle lies within the rendered page and is not inverted
WithinImage(rect) ==
    /\ 0 <= rect[1] /\ rect[1] <= rect[3] /\ rect[3] <= ImageWidth
    /\ 0 <= rect[2] /\ rect[2] <= rect[4] /\ rect[4] <= ImageHeight

\* a box of 4 components with 0 <= left <= right <= 1, 0 <= top <= bottom <= 1
WellFormedBox(bbox) ==
    /\ Len(bbox) = 4
    /\ 0 <= bbox[1] /\ bbox[1] <= bbox[3] /\ bbox[3] <= BoxDen
    /\ 0 <= bbox[2] /\ bbox[2] <= bbox[4] /\ bbox[4] <= BoxDen

\* a box of 4 components, one of them outside [0, 1]
OutOfRangeBox(bbox) ==
    /\ Len(bbox) = 4
    /\ \E k \in 1..4 : bbox[k] < 0 \/ bbox[k] > BoxDen

\* C14: for a box with 0 <= left <= right <= 1 and 0 <= top <= bottom <= 1
\* and any padding (none, the default, larger than the page), the crop
\* rectangle (x0, y0, x1, y1) extract_chunk_image computes satisfies
\* 0 <= x0 <= x1 <= imageWidth and 0 <= y0 <= y1 <= imageHeight, however the
\* float products round.
C14_CropWithinImage ==
    (/\ lastCall.fn = "extract_chunk_image"
     /\ lastCall.rect # << >>
     /\ WellFormedBox(req.bbox)) =>
        WithinImage(lastCall.rect)

\* a box on the right page edge with a padding larger than the page: the
\* crop is clamped to the page
C14_Witness ==
    /\ lastCall.fn = "extract_chunk_image"
    /\ req.bbox = <<BoxDen, 0, BoxDen, BoxDen>>
    /\ req.padding = HugePadding
    /\ lastCall.rect = <<0, 0, ImageWidth, ImageHeight>>
    /\ lastCall.wrote = <<K_report_image>>

\* C15: for a box of 4 components with one outside [0, 1],
\* extract_chunk_image computes no crop rectangle that lies outside
\* [0, imageWidth] x [0, imageHeight] or has x0 > x1 or y0 > y1 (the full
\* page is used instead), and no exception leaves the call.
C15_OutOfRangeBox ==
    (lastCall.fn = "extract_chunk_image" /\ OutOfRangeBox(req.bbox)) =>
        /\ ~lastCall.raised
        /\ lastCall.rect # << >> => WithinImage(lastCall.rect)

\* C16: without a box, or with a box of 3 or 5 components,
\* extract_chunk_image computes no crop rectangle, raises no exception, and
\* the object it writes is the whole rendered page; with the capability
\* present, no image yet and no call failing it does write it.
C16_MalformedBoxFullPage ==
    (lastCall.fn = "extract_chunk_image" /\ (req.bbox = << >> \/ Len(req.bbox) # 4)) =>
        /\ ~lastCall.raised
        /\ lastCall.rect = << >>
        /\ lastCall.mode # "crop"
        /\ lastCall.wrote # << >> => lastCall.mode = "page"
        /\ (/\ CroppingEnabled(imports)
            /\ ~lastCall.existed
            /\ \A k \in 1..Len(lastCall.log) : lastCall.log[k].outcome = "ok") =>
               /\ lastCall.wrote = <<K_report_image>>
               /\ lastCall.ret = "url"

\* the box [1/4, 1/4, 1/2] of three components: the whole page was written
C16_Witness ==
    /\ lastCall.fn = "extract_chunk_image"
    /\ req.bbox = <<1, 1, 2>>
    /\ lastCall.mode = "page"
    /\ lastCall.wrote = <<K_report_image>>
    /\ K_report_image \in DOMAIN store

\* the functions of visual_grounding_helper
ImageFunctions ==
    {"render_pdf_page", "extract_chunk_image", "create_annotated_image_from_pdf",
     "get_or_create_annotated_image"}

\* C17: when an import of the imaging modules failed, no call of
\* render_pdf_page, extract_chunk_image, create_annotated_image_from_pdf or
\* get_or_create_annotated_image raises to its caller or writes an image
\* object, and every call but one that finds the image already there
\* returns None.
C17_CapabilityAbsent ==
    (~CroppingEnabled(imports) /\ lastCall.fn \in ImageFunctions) =>
        /\ ~lastCall.raised
        /\ lastCall.wrote = << >>
        /\ \A k \in 1..Len(lastCall.log) : lastCall.log[k].op # "put"
        /\ lastCall.mode # "existing" => lastCall.ret = "none"

\* without PyMuPDF, create_annotated_image_from_pdf has returned None
C17_Witness ==
    /\ "fitz" \notin imports
    /\ lastCall.fn = "create_annotated_image_from_pdf"
    /\ lastCall.ret = "none"
    /\ ~lastCall.raised

\* the calls with an existence check of their target image
CheckingCall ==
    \/ lastCall.fn = "extract_chunk_image"
    \/ lastCall.fn = "get_or_create_annotated_image" /\ ~lastCall.force_recreate

\* the call returned the URL of the existing object and did nothing else
ShortCircuited ==
    /\ lastCall.ret = "url"
    /\ lastCall.wrote = << >>
    /\ \A k \in 1..Len(lastCall.log) : lastCall.log[k].op = "head"

C23_HighlightAtBox ==
    (/\ lastCall.fn = "extract_chunk_image"
     /\ WellFormedBox(req.bbox)
     /\ lastCall.mark # << >>
     /\ lastCall.wrote # << >>) =>
        /\ lastCall.mark[1] <= lastCall.mark[3]
        /\ lastCall.mark[2] <= lastCall.mark[4]
        /\ lastCall.mark[1] = lastCall.pixels[1] - lastCall.rect[1]
        /\ lastCall.mark[2] = lastCall.pixels[2] - lastCall.rect[2]

\* C21: starting from an empty output folder, a record is reported skipped
\* as already_processed only if an earlier call for that same input key wrote
\* the markdown object.
C21_SkippedOnlyIfSameKeyWrote ==
    \A n \in DOMAIN inv :
      \A i \in DOMAIN inv[n].results :
        LET res == inv[n].results[i] IN
        (res.status = "skipped" /\ res.detail = "already_processed") =>
            \E m \in DOMAIN calls :
              \E r \in DOMAIN calls[m] :
                /\ calls[m][r].key = res.source
                /\ \E c \in DOMAIN calls[m][r].log :
                     /\ calls[m][r].log[c].op = "put_md"
                     /\ calls[m][r].log[c].outcome = "ok"

\* the keys of the documents the user has uploaded
UploadedKeys == {KeyOfDoc(d) : d \in uploaded}

\* the objects the handler has written so far
HandlerWritten == DOMAIN store \ UploadedKeys

\* a record of invocation n for which an object was written
WroteFor(n, r) ==
    \E c \in DOMAIN calls[n][r].log :
        calls[n][r].log[c].op \in WriteOps /\ calls[n][r].log[c].outcome = "ok"

\* nothing is notified and every invocation has returned
Quiescent ==
    /\ events = EmptyBag
    /\ \A n \in DOMAIN inv : inv[n].pc = "returned"

\* the invocations and pending notifications are at most two per upload,
\* every notified key is an uploaded document or the input folder
\* placeholder, and an invocation for a key that is not an uploaded
\* document writes nothing
NoSelfTrigger ==
    /\ Len(inv) + BagCardinality(events) <= 2 * Cardinality(uploaded)
    /\ BagToSet(events) \subseteq UploadedKeys \cup {INPUT_FOLDER}
    /\ \A n \in DOMAIN calls :
         \A r \in DOMAIN calls[n] :
            calls[n][r].key \notin UploadedKeys =>
                /\ calls[n][r].key = INPUT_FOLDER
                /\ calls[n][r].log = << >>
                /\ ~WroteFor(n, r)

\* the number of objects the handler may still write for a chunk
ChunksToCome == Len(ChunksData(parsed))

\* a bound on the steps left for the record an invocation is working on,
\* the invocation its object written next may start included
RecordSteps(loc) ==
    IF loc.pc = "ensure" THEN 4 * (ChunksToCome + 8 - loc.f)
    ELSE IF loc.pc = "head" THEN 4 * (ChunksToCome + 5)
    ELSE IF loc.pc = "get" THEN 4 * (ChunksToCome + 4)
    ELSE IF loc.pc = "parse" THEN 4 * (ChunksToCome + 3)
    ELSE IF loc.pc = "put_md" THEN 4 * (ChunksToCome + 2)
    ELSE IF loc.pc = "put_grounding" THEN 4 * (ChunksToCome + 1)
    ELSE IF loc.pc = "put_chunk" THEN 4 * (Len(loc.chunks_data) - loc.j + 1)
    ELSE 0

\* a bound on the steps of one whole record
WholeRecord == 4 * (ChunksToCome + 8)

\* a bound on the steps of the record of `key`: a folder key is skipped
KeySteps(key) == IF IsFolderKey(key) THEN 1 ELSE WholeRecord

RECURSIVE SumOver(_, _)
SumOver(f, dom) ==
    IF dom = {} THEN 0
    ELSE LET x == CHOOSE y \in dom : TRUE IN f[x] + SumOver(f, dom \ {x})

\* a bound on the steps for the records of an invocation from `first` on
\* (a key ends with "/" exactly if its record does, or with an escape of it)
RecordsSteps(loc, first) ==
    SumOver([r \in first..Len(loc.records) |-> KeySteps(loc.records[r])],
            first..Len(loc.records))

\* a bound on the steps left for an invocation, its return included
InvocationSteps(loc) ==
    IF loc.pc = "returned" THEN 0
    ELSE IF loc.pc = "loop" THEN RecordsSteps(loc, loc.i) + 1
    ELSE RecordSteps(loc) + RecordsSteps(loc, loc.i + 1) + 1

\* a bound on the steps a notified key stands for: the start of the
\* invocation and the invocation
EventSteps(key) == KeySteps(key) + 2

\* a bound on the steps the system can still take: for the documents not
\* yet uploaded, the notified keys and the running invocations
StepsLeft ==
    Cardinality(TriggerDocs \ uploaded) * (WholeRecord + 3)
    + SumOver([k \in BagToSet(events) |-> events[k] * EventSteps(k)], BagToSet(events))
    + SumOver([n \in DOMAIN inv |-> InvocationSteps(inv[n])], DOMAIN inv)

====
